---- MODULE Spec2Model ----
(***************************************************************************)
(* Windows identity resolution of exa's field model.                       *)
(*                                                                         *)
(*   src/src/fs/fields.rs                   NamedSecurityInfo: try_from,   *)
(*                                          lookup_account_sid_buffer,     *)
(*                                          lookup_account_sid, drop       *)
(*   src/src/output/render/users_windows.rs User::render and its own copy  *)
(*                                          of the two lookup functions    *)
(*   src/src/output/render/groups_windows.rs Group::render                 *)
(*                                                                         *)
(* One directory entry is processed at a time (single thread).  The OS     *)
(* (GetNamedSecurityInfoW, LookupAccountSidW, GetLastError, LocalFree) is  *)
(* the environment: what it returns is chosen with \E at each call.        *)
(***************************************************************************)
EXTENDS Integers, Sequences, FiniteSets, TLC

\* ------------------------------------------------------------------ bounds
\* Number of try_from calls of one run.
MaxAcquire == 2
\* Largest character count the OS reports for a name or a domain.
MaxCount == 2
\* Largest hard-link count of an entry.
MaxLinks == 3
\* Largest number of Type values sorted at once.
MaxTypes == 2

\* ------------------------------------------------------- environment values
\* OS last-error codes a failed LookupAccountSidW leaves behind:
\* ERROR_ACCESS_DENIED, ERROR_INSUFFICIENT_BUFFER, ERROR_NONE_MAPPED.
ErrCodes == {5, 122, 1332}
\* ERROR_INSUFFICIENT_BUFFER: the buffers handed to the call were too small.
InsufficientBuffer(e) == e = 122
\* ERROR_NONE_MAPPED: the SID maps to no account.
NoneMapped == CHOOSE e \in ErrCodes : e > 1000

\* UTF-16 code units: a BMP unit, a high surrogate, a low surrogate.
Units == {"u_a", "u_hi", "u_lo"}
\* Buffers of exactly n code units.
UnitSeqs(n) == [1..n -> Units]

\* The display-format argument of render.
UserFormat == {"Numeric", "Name"}

\* ------------------------------------------------------------ data values
NullSid == [role |-> "null", desc |-> 0]
NoInfo == [owner |-> NullSid, group |-> NullSid, security_descriptor |-> 0]
NoResult == [set |-> FALSE, ok |-> FALSE, kind |-> "None", msg |-> <<>>,
             name |-> <<>>, domain |-> <<>>]
NoCell == [text |-> <<>>, style |-> "none"]
NoCall == [phase |-> "none", sid |-> NullSid, live |-> FALSE]

\* io::Error::new(kind, msg) carried by a Result.
Err(kind, msg) == [set |-> TRUE, ok |-> FALSE, kind |-> kind, msg |-> msg,
                   name |-> <<>>, domain |-> <<>>]
OkNames(name, domain) == [set |-> TRUE, ok |-> TRUE, kind |-> "None", msg |-> <<>>,
                          name |-> name, domain |-> domain]

MsgProbeSucceeded == <<"LookupAccountSidW suceeded with null buffers when it should have failed">>
MsgCountZero == <<"SID was incorrect, causing domain/name count to return 0">>

\* ---------------------------------------------------------- pure functions
\* u32::to_string: decimal digits, most significant first.
Digit(d) == CASE d = 0 -> "0" [] d = 1 -> "1" [] d = 2 -> "2" [] d = 3 -> "3"
              [] d = 4 -> "4" [] d = 5 -> "5" [] d = 6 -> "6" [] d = 7 -> "7"
              [] d = 8 -> "8" [] d = 9 -> "9"
RECURSIVE to_string(_)
to_string(n) == IF n < 10 THEN <<Digit(n)>>
                ELSE Append(to_string(n \div 10), Digit(n % 10))

\* String::from_utf16_lossy: a surrogate pair decodes to one supplementary
\* character, any unpaired surrogate to U+FFFD, a BMP unit to itself.
RECURSIVE from_utf16_lossy(_)
from_utf16_lossy(buf) ==
    IF buf = <<>> THEN <<>>
    ELSE IF buf[1] = "u_hi" /\ Len(buf) >= 2 /\ buf[2] = "u_lo"
         THEN <<"c_supp">> \o from_utf16_lossy(SubSeq(buf, 3, Len(buf)))
    ELSE IF buf[1] \in {"u_hi", "u_lo"}
         THEN <<"c_fffd">> \o from_utf16_lossy(Tail(buf))
    ELSE <<"c_a">> \o from_utf16_lossy(Tail(buf))

\* [a, b].join(sep)
RECURSIVE join(_, _)
join(parts, sep) ==
    IF parts = <<>> THEN <<>>
    ELSE IF Len(parts) = 1 THEN parts[1]
    ELSE parts[1] \o <<sep>> \o join(Tail(parts), sep)

\* ------------------------------------------------------------ field model
\* enum Type: the variants, in the order the enum declares them.
Type == {"Directory", "File", "Link", "Pipe", "Socket", "CharDevice",
         "BlockDevice", "Special"}

\* discriminant with the variants numbered in alphabetical order.
discriminant_alphabetical(t) ==
    CASE t = "BlockDevice" -> 0 [] t = "CharDevice" -> 1 [] t = "Directory" -> 2
      [] t = "File" -> 3 [] t = "Link" -> 4 [] t = "Pipe" -> 5
      [] t = "Socket" -> 6 [] t = "Special" -> 7

\* The discriminant the compiler gives each variant of Type: its position in
\* the declaration, from 0.
discriminant(t) ==
    CASE t = "Directory" -> 0 [] t = "File" -> 1 [] t = "Link" -> 2
      [] t = "Pipe" -> 3 [] t = "Socket" -> 4 [] t = "CharDevice" -> 5
      [] t = "BlockDevice" -> 6 [] t = "Special" -> 7

\* #[derive(PartialOrd, Ord)] on Type: variants compare by discriminant.
cmp(a, b) ==
    IF discriminant(a) < discriminant(b) THEN "Less"
    ELSE IF discriminant(a) > discriminant(b) THEN "Greater"
    ELSE "Equal"

\* is_regular_file that also takes a link for a regular file.
is_regular_file_or_link(self) == self \in {"File", "Link"}

\* Type::is_regular_file: matches!(self, Self::File)
is_regular_file(self) == self = "File"

\* enum GitStatus
GitStatus == {"NotModified", "New", "Modified", "Deleted", "Renamed",
              "TypeChange", "Ignored", "Conflicted"}

\* Git::default() with the unstaged side left Modified.
Git_default_unstaged_modified == [staged |-> "NotModified", unstaged |-> "Modified"]

\* Git::default()
Git_default == [staged |-> "NotModified", unstaged |-> "NotModified"]

\* Building a Links value from an entry's type and link count: multiple is
\* set for a regular file with more than one link.
Links_new(t, c) == [count |-> c, multiple |-> is_regular_file(t) /\ c > 1, set |-> TRUE]

\* A stable sort by cmp: each element goes in after the elements that are
\* not greater than it.
RECURSIVE insert(_, _)
insert(x, s) ==
    IF s = <<>> THEN <<x>>
    ELSE IF cmp(x, s[1]) = "Less" THEN <<x>> \o s
    ELSE <<s[1]>> \o insert(x, Tail(s))
RECURSIVE sort(_)
sort(s) ==
    IF s = <<>> THEN <<>>
    ELSE insert(s[Len(s)], sort(SubSeq(s, 1, Len(s) - 1)))

\* Collections of at most n Type values.
TypeSeqs(n) == UNION {[1..k -> Type] : k \in 0..n}

\* Values of fields nothing has computed yet.
NoLinks == [count |-> 0, multiple |-> FALSE, set |-> FALSE]
NoGit == [staged |-> "None", unstaged |-> "None"]
NoBool == [set |-> FALSE, value |-> FALSE]
NoSeq == [set |-> FALSE, value |-> <<>>]

\* ------------------------------------------------------------------- state
VARIABLES
    pc,             \* "idle" | "held" | "probe" | "fill" | "paint"
    kind,           \* which render is running: "None" | "User" | "Group"
    format,         \* the _format argument of the running render
    acquired,       \* number of try_from calls so far
    allocated,      \* descriptors the OS has allocated
    freeCount,      \* descriptor -> number of LocalFree calls on it
    info,           \* the live NamedSecurityInfo value, NoInfo when none
    tryResult,      \* what the last try_from returned
    secOut,         \* what GetNamedSecurityInfoW reported to the last try_from:
                    \* <<owner SID valid, group SID valid, descriptor valid>>
    name_character_count,
    domain_name_character_count,
    nameCap,        \* capacity of name_buffer
    domCap,         \* capacity of domain_name_buffer
    name_buffer,    \* initialised contents of name_buffer, up to its length
    domain_name_buffer,
    lookupResult,   \* what lookup_account_sid returned to render
    lastError,      \* the thread's OS last-error code
    probeOut,       \* what the probe call reported: <<ret, n, m>>
    fillOut,        \* what the fill call reported: <<ret, n, m>>
    probeCalls,     \* probe calls issued by the running render call
    fillCalls,      \* fill calls issued by the running render call
    lastCall,       \* the SID handed to the last LookupAccountSidW call
    logCount,       \* error! records written by the last render call
    cell,           \* the TextCell the last render call returned
    outcome,        \* how the last render call ended: "none" | "cell" | "raise"
    file_type,      \* the Type of the entry being described
    nlink,          \* the link count the OS reported for the entry
    links,          \* the Links value built for the entry
    regular,        \* what is_regular_file returned for the entry's type
    types,          \* a collection of Type values to sort
    sorted,         \* that collection sorted
    git             \* a Git value

vars == <<pc, kind, format, acquired, allocated, freeCount, info, tryResult, secOut,
          name_character_count, domain_name_character_count, nameCap, domCap,
          name_buffer, domain_name_buffer, lookupResult, lastError, probeOut,
          fillOut, probeCalls, fillCalls, lastCall, logCount, cell, outcome,
          file_type, nlink, links, regular, types, sorted, git>>

descVars == <<acquired, allocated, freeCount, info, tryResult, secOut>>
localVars == <<name_character_count, domain_name_character_count, nameCap, domCap,
               name_buffer, domain_name_buffer>>
renderVars == <<lookupResult, probeOut, fillOut, probeCalls, fillCalls, logCount,
                cell, outcome>>
fieldVars == <<file_type, nlink, links, regular, types, sorted, git>>
identityVars == <<pc, kind, format, lastError, lastCall, descVars, localVars, renderVars>>

IdentityInit ==
    /\ pc = "idle"
    /\ kind = "None"
    /\ format = "Name"
    /\ acquired = 0
    /\ allocated = {}
    /\ freeCount = [d \in 1..MaxAcquire |-> 0]
    /\ info = NoInfo
    /\ tryResult = NoResult
    /\ secOut = <<FALSE, FALSE, FALSE>>
    /\ name_character_count = 0
    /\ domain_name_character_count = 0
    /\ nameCap = 0
    /\ domCap = 0
    /\ name_buffer = <<>>
    /\ domain_name_buffer = <<>>
    /\ lookupResult = NoResult
    /\ lastError = 0
    /\ probeOut = <<FALSE, 0, 0>>
    /\ fillOut = <<FALSE, 0, 0>>
    /\ probeCalls = 0
    /\ fillCalls = 0
    /\ lastCall = NoCall
    /\ logCount = 0
    /\ cell = NoCell
    /\ outcome = "none"

\* No field value has been computed.
FieldUnset ==
    /\ links = NoLinks
    /\ regular = NoBool
    /\ sorted = NoSeq
    /\ git = NoGit

\* The identity resolution of one listing: the entry is a file with one link.
Init ==
    /\ IdentityInit
    /\ file_type = "File"
    /\ nlink = 1
    /\ types = <<>>
    /\ FieldUnset

\* ------------------------------------------------- descriptor acquisition
\* try_from_result with the descriptor checked before the SIDs.
try_from_result_descriptor_first(ownerOk, groupOk, sdOk) ==
    IF ~sdOk THEN Err("PermissionDenied", <<"Security Descriptor Inaccessible">>)
    ELSE IF ~ownerOk THEN Err("NotFound", <<"Owner SID not found">>)
    ELSE IF ~groupOk THEN Err("NotFound", <<"Group SID not found">>)
    ELSE OkNames(<<>>, <<>>)

\* The checks of try_from after GetNamedSecurityInfoW has returned.
try_from_result(ownerOk, groupOk, sdOk) ==
    IF ~ownerOk THEN Err("NotFound", <<"Owner SID not found">>)
    ELSE IF ~groupOk THEN Err("NotFound", <<"Group SID not found">>)
    ELSE IF ~sdOk THEN Err("PermissionDenied", <<"Security Descriptor Inaccessible">>)
    ELSE OkNames(<<>>, <<>>)

\* NamedSecurityInfo::try_from(path).  The OS call's return value is not
\* looked at; the three out-parameters are whatever the OS left in them.  A
\* valid descriptor is memory the OS allocated for this call.  On an early
\* return no NamedSecurityInfo is built, so nothing owns that memory.
try_from ==
    /\ pc = "idle"
    /\ acquired < MaxAcquire
    /\ \E ownerOk \in BOOLEAN, groupOk \in BOOLEAN, sdOk \in BOOLEAN :
         LET d == acquired + 1
             r == try_from_result(ownerOk, groupOk, sdOk)
         IN  /\ acquired' = d
             /\ secOut' = <<ownerOk, groupOk, sdOk>>
             /\ allocated' = IF sdOk THEN allocated \cup {d} ELSE allocated
             /\ tryResult' = r
             /\ IF r.ok
                THEN /\ info' = [owner |-> [role |-> "owner", desc |-> d],
                                 group |-> [role |-> "group", desc |-> d],
                                 security_descriptor |-> d]
                     /\ pc' = "held"
                ELSE /\ info' = NoInfo
                     /\ pc' = "idle"
    /\ UNCHANGED <<kind, format, freeCount, lastError, lastCall>>
    /\ UNCHANGED localVars
    /\ UNCHANGED renderVars
    /\ UNCHANGED fieldVars

\* LocalFreeOf with the value forgotten instead of dropped: no LocalFree.
LocalFreeOf_forget(i) ==
    /\ freeCount' = freeCount
    /\ info' = NoInfo

\* The state change of Drop::drop: LocalFree(self.security_descriptor), after
\* which the value is gone.
LocalFreeOf(i) ==
    /\ freeCount' = [freeCount EXCEPT ![i.security_descriptor] = @ + 1]
    /\ info' = NoInfo

\* impl Drop for NamedSecurityInfo: the value goes out of scope unrendered.
drop ==
    /\ pc = "held"
    /\ LocalFreeOf(info)
    /\ pc' = "idle"
    /\ UNCHANGED <<kind, format, acquired, allocated, tryResult, secOut,
                   lastError, lastCall>>
    /\ UNCHANGED localVars
    /\ UNCHANGED renderVars
    /\ UNCHANGED fieldVars

\* ------------------------------------------------------ SID resolution
\* lookup_account_sid_buffer without the check for a zero count.
lookup_account_sid_buffer_no_zero_check(ret, n, m) ==
    IF ret = TRUE
    THEN [ok |-> FALSE, kind |-> "InvalidInput", msg |-> MsgProbeSucceeded,
          counts |-> <<0, 0>>]
    ELSE [ok |-> TRUE, kind |-> "None", msg |-> <<>>, counts |-> <<n, m>>]

\* lookup_account_sid_buffer with the counts checked before the status.
lookup_account_sid_buffer_counts_first(ret, n, m) ==
    IF (n = 0) \/ (m = 0)
    THEN [ok |-> FALSE, kind |-> "NotFound", msg |-> MsgCountZero,
          counts |-> <<0, 0>>]
    ELSE IF ret = TRUE
    THEN [ok |-> FALSE, kind |-> "InvalidInput", msg |-> MsgProbeSucceeded,
          counts |-> <<0, 0>>]
    ELSE [ok |-> TRUE, kind |-> "None", msg |-> <<>>, counts |-> <<n, m>>]

\* The checks of lookup_account_sid_buffer on what the probe call left in
\* return_value and the two counts, in the order the code makes them.
lookup_account_sid_buffer(ret, n, m) ==
    IF ret = TRUE
    THEN [ok |-> FALSE, kind |-> "InvalidInput", msg |-> MsgProbeSucceeded,
          counts |-> <<0, 0>>]
    ELSE IF (n = 0) \/ (m = 0)
    THEN [ok |-> FALSE, kind |-> "NotFound", msg |-> MsgCountZero,
          counts |-> <<0, 0>>]
    ELSE [ok |-> TRUE, kind |-> "None", msg |-> <<>>, counts |-> <<n, m>>]

\* The probe: LookupAccountSidW(null, sid, null, &mut 0, null, &mut 0, null),
\* then the `?` of lookup_account_sid on what lookup_account_sid_buffer
\* returns.  The OS chooses the status and both counts; a failed call leaves
\* its last-error code behind.
Probe(sid) ==
    /\ pc = "probe"
    /\ \E ret \in BOOLEAN, n \in 0..MaxCount, m \in 0..MaxCount :
         LET r == lookup_account_sid_buffer(ret, n, m)
         IN  /\ probeOut' = <<ret, n, m>>
             /\ probeCalls' = probeCalls + 1
             /\ lastCall' = [phase |-> "probe", sid |-> sid,
                             live |-> freeCount[sid.desc] = 0]
             /\ lastError' = IF ret THEN lastError
                             ELSE IF (n = 0) \/ (m = 0) THEN NoneMapped
                             ELSE CHOOSE e \in ErrCodes : InsufficientBuffer(e)
             /\ IF r.ok
                THEN /\ name_character_count' = r.counts[1]
                     /\ domain_name_character_count' = r.counts[2]
                     /\ lookupResult' = lookupResult
                     /\ pc' = "fill"
                ELSE /\ UNCHANGED <<name_character_count, domain_name_character_count>>
                     /\ lookupResult' = Err(r.kind, r.msg)
                     /\ pc' = "paint"
    /\ UNCHANGED <<kind, format, nameCap, domCap, name_buffer, domain_name_buffer,
                   fillOut, fillCalls, logCount, cell, outcome>>
    /\ UNCHANGED descVars
    /\ UNCHANGED fieldVars

\* Vec::set_len(new_len) on a buffer whose memory holds mem.
set_len(mem, new_len) == SubSeq(mem, 1, new_len)

\* fill_failed with a fixed message in place of the last-error code.
fill_failed_fixed_message(error) == Err("InvalidInput", <<"LookupAccountSidW failed">>)

\* lookup_account_sid when the fill call returned a not-ok status: the error
\* built from the code GetLastError() returned.
fill_failed(error) == Err("InvalidInput", to_string(error))

\* fill_failed_next with one more attempt from the probe when the buffers
\* were too small.
fill_failed_retry(error) ==
    IF InsufficientBuffer(error) /\ probeCalls < 2 THEN "probe" ELSE "paint"

\* Where control goes from a failed fill call: `return Err(..)` leaves
\* lookup_account_sid, and render goes on to paint the cell.
fill_failed_next(error) == "paint"

\* fill_succeeded with the buffers' lengths set to their capacities.
fill_succeeded_capacity(capN, capM, wn, wm, memN, memM) ==
    LET nb == set_len(memN, capN)
        db == set_len(memM, capM)
    IN  [name_buffer |-> nb, domain_name_buffer |-> db,
         result |-> OkNames(from_utf16_lossy(nb), from_utf16_lossy(db))]

\* fill_succeeded with the terminating null counted into the lengths.
fill_succeeded_with_terminator(capN, capM, wn, wm, memN, memM) ==
    LET nb == SubSeq(memN \o <<"u_a">>, 1, wn + 1)
        db == SubSeq(memM \o <<"u_a">>, 1, wm + 1)
    IN  [name_buffer |-> nb, domain_name_buffer |-> db,
         result |-> OkNames(from_utf16_lossy(nb), from_utf16_lossy(db))]

\* lookup_account_sid when the fill call returned ok: both buffers get the
\* length the call left in its count, then are decoded.  capN, capM are the
\* capacities, wn, wm the counts after the call.
fill_succeeded(capN, capM, wn, wm, memN, memM) ==
    LET nb == set_len(memN, wn)
        db == set_len(memM, wm)
    IN  [name_buffer |-> nb, domain_name_buffer |-> db,
         result |-> OkNames(from_utf16_lossy(nb), from_utf16_lossy(db))]

\* The fill: lookup_account_sid from Vec::with_capacity to its return.  The
\* OS chooses the status.  On success it has stored wn and wm code units (no
\* more than the buffers hold) and left those counts in the in/out
\* parameters; the rest of each buffer's memory is indeterminate.  On failure
\* it leaves a last-error code, and for an insufficient buffer the sizes it
\* wants.
Fill(sid) ==
    /\ pc = "fill"
    /\ LET capN == name_character_count
           capM == domain_name_character_count
       IN  /\ nameCap' = capN
           /\ domCap' = capM
           /\ fillCalls' = fillCalls + 1
           /\ lastCall' = [phase |-> "fill", sid |-> sid,
                           live |-> freeCount[sid.desc] = 0]
           /\ \/ \E wn \in 0..capN, wm \in 0..capM :
                   \E memN \in UnitSeqs(capN), memM \in UnitSeqs(capM) :
                     LET r == fill_succeeded(capN, capM, wn, wm, memN, memM)
                     IN  /\ fillOut' = <<TRUE, wn, wm>>
                         /\ name_character_count' = wn
                         /\ domain_name_character_count' = wm
                         /\ lastError' = lastError
                         /\ name_buffer' = r.name_buffer
                         /\ domain_name_buffer' = r.domain_name_buffer
                         /\ lookupResult' = r.result
                         /\ pc' = "paint"
              \/ \E e \in ErrCodes :
                   LET grew == InsufficientBuffer(e)
                       wn == IF grew THEN capN + 1 ELSE capN
                       wm == IF grew THEN capM + 1 ELSE capM
                   IN  /\ fillOut' = <<FALSE, wn, wm>>
                       /\ name_character_count' = wn
                       /\ domain_name_character_count' = wm
                       /\ lastError' = e
                       /\ UNCHANGED <<name_buffer, domain_name_buffer>>
                       /\ lookupResult' = fill_failed(lastError')
                       /\ pc' = fill_failed_next(lastError')
    /\ UNCHANGED <<kind, format, probeOut, probeCalls, logCount, cell, outcome>>
    /\ UNCHANGED descVars
    /\ UNCHANGED fieldVars

\* ------------------------------------------------------------- rendering
\* RenderCall with the descriptor released before the lookups, the SIDs
\* having been copied out of the value.
RenderCall_releases_first(k) ==
    /\ pc = "held"
    /\ kind' = k
    /\ \E f \in UserFormat : format' = f
    /\ lookupResult' = NoResult
    /\ probeOut' = <<FALSE, 0, 0>>
    /\ fillOut' = <<FALSE, 0, 0>>
    /\ probeCalls' = 0
    /\ fillCalls' = 0
    /\ logCount' = 0
    /\ cell' = NoCell
    /\ outcome' = "none"
    /\ pc' = "probe"
    /\ freeCount' = [freeCount EXCEPT ![info.security_descriptor] = 1]
    /\ UNCHANGED <<lastError, lastCall, acquired, allocated, info, tryResult, secOut>>
    /\ UNCHANGED localVars
    /\ UNCHANGED fieldVars

\* A render call starts: it takes the value that owns the descriptor.
RenderCall(k) ==
    /\ pc = "held"
    /\ kind' = k
    /\ \E f \in UserFormat : format' = f
    /\ lookupResult' = NoResult
    /\ probeOut' = <<FALSE, 0, 0>>
    /\ fillOut' = <<FALSE, 0, 0>>
    /\ probeCalls' = 0
    /\ fillCalls' = 0
    /\ logCount' = 0
    /\ cell' = NoCell
    /\ outcome' = "none"
    /\ pc' = "probe"
    /\ UNCHANGED <<lastError, lastCall>>
    /\ UNCHANGED descVars
    /\ UNCHANGED fieldVars
    /\ UNCHANGED localVars

\* User_render_cell with the style chosen by the format argument.
User_render_cell_by_format(result, f) ==
    IF result.ok
    THEN [text |-> join(<<result.domain, result.name>>, "/"),
          style |-> IF f = "Name" THEN "you" ELSE "someone_else"]
    ELSE [text |-> <<"E", "R", "R", "O", "R">>, style |-> "red_bold"]

\* TextCell::paint(style, display_name) of User::render.
User_render_cell(result, f) ==
    IF result.ok
    THEN [text |-> join(<<result.domain, result.name>>, "/"), style |-> "someone_else"]
    ELSE [text |-> <<"E", "R", "R", "O", "R">>, style |-> "red_bold"]

\* Group_render_cell with the placeholder in the group's ordinary style.
Group_render_cell_plain_error(result, f) ==
    IF result.ok
    THEN [text |-> join(<<result.domain, result.name>>, "/"), style |-> "not_yours"]
    ELSE [text |-> <<"E", "R", "R", "O", "R">>, style |-> "not_yours"]

\* TextCell::paint(style, display_name) of Group::render.
Group_render_cell(result, f) ==
    IF result.ok
    THEN [text |-> join(<<result.domain, result.name>>, "/"), style |-> "not_yours"]
    ELSE [text |-> <<"E", "R", "R", "O", "R">>, style |-> "red_bold"]

\* error!(...) records a render call writes for a lookup result.
render_log(result) == IF result.ok THEN 0 ELSE 1

\* A render call returns: the cell is painted from the lookup's result, an
\* error is logged, and self, which owns the descriptor, is dropped.
RenderReturn(c) ==
    /\ pc = "paint"
    /\ cell' = c
    /\ logCount' = logCount + render_log(lookupResult)
    /\ outcome' = "cell"
    /\ LocalFreeOf(info)
    /\ name_character_count' = 0
    /\ domain_name_character_count' = 0
    /\ nameCap' = 0
    /\ domCap' = 0
    /\ name_buffer' = <<>>
    /\ domain_name_buffer' = <<>>
    /\ pc' = "idle"
    /\ UNCHANGED <<kind, format, acquired, allocated, tryResult, secOut, lookupResult,
                   lastError, probeOut, fillOut, probeCalls, fillCalls, lastCall>>
    /\ UNCHANGED fieldVars

\* User::render(self, colours, _format)
User_render == RenderCall("User")
\* User::lookup_account_sid_buffer: the SID it passes is self.0.owner
User_lookup_account_sid_buffer == kind = "User" /\ Probe(info.owner)
\* User::lookup_account_sid: the SID it passes is self.0.owner
User_lookup_account_sid == kind = "User" /\ Fill(info.owner)
User_render_return ==
    kind = "User" /\ RenderReturn(User_render_cell(lookupResult, format))

\* Group::render(self, colours, _format): self.0.lookup_account_sid(true)
Group_render == RenderCall("Group")
\* NamedSecurityInfo::lookup_account_sid_buffer: the SID it passes is self.owner
NamedSecurityInfo_lookup_account_sid_buffer == kind = "Group" /\ Probe(info.owner)
\* NamedSecurityInfo::lookup_account_sid: the SID it passes is self.owner
NamedSecurityInfo_lookup_account_sid == kind = "Group" /\ Fill(info.owner)
Group_render_return ==
    kind = "Group" /\ RenderReturn(Group_render_cell(lookupResult, format))

Next ==
    \/ try_from
    \/ drop
    \/ User_render
    \/ User_lookup_account_sid_buffer
    \/ User_lookup_account_sid
    \/ User_render_return
    \/ Group_render
    \/ NamedSecurityInfo_lookup_account_sid_buffer
    \/ NamedSecurityInfo_lookup_account_sid
    \/ Group_render_return

Spec == Init /\ [][Next]_vars

\* ---------------------------------------------------- field model, applied
\* The field values of one entry: any type, any link count, any collection
\* of types to sort.
FieldInit ==
    /\ IdentityInit
    /\ file_type \in Type
    /\ nlink \in 0..MaxLinks
    /\ types \in TypeSeqs(MaxTypes)
    /\ FieldUnset

\* The Links value of the entry is built.
Links_construct ==
    /\ ~links.set
    /\ links' = Links_new(file_type, nlink)
    /\ UNCHANGED <<file_type, nlink, regular, types, sorted, git>>
    /\ UNCHANGED identityVars

\* Type::is_regular_file on the entry's type.
Type_is_regular_file ==
    /\ ~regular.set
    /\ regular' = [set |-> TRUE, value |-> is_regular_file(file_type)]
    /\ UNCHANGED <<file_type, nlink, links, types, sorted, git>>
    /\ UNCHANGED identityVars

\* The collection of types is sorted by Type's ordering.
Type_sort ==
    /\ ~sorted.set
    /\ sorted' = [set |-> TRUE, value |-> sort(types)]
    /\ UNCHANGED <<file_type, nlink, links, regular, types, git>>
    /\ UNCHANGED identityVars

\* Git::default()
Git_default_call ==
    /\ git = NoGit
    /\ git' = Git_default
    /\ UNCHANGED <<file_type, nlink, links, regular, types, sorted>>
    /\ UNCHANGED identityVars

FieldNext ==
    \/ Links_construct
    \/ Type_is_regular_file
    \/ Type_sort
    \/ Git_default_call

FieldSpec == FieldInit /\ [][FieldNext]_vars

\* ------------------------------------------------------ helpers of claims
ErrorText == <<"E", "R", "R", "O", "R">>
IsError(r) == r.set /\ ~r.ok
ProbeDone == probeCalls >= 1
FillDone == fillCalls >= 1
ProbeZero == (probeOut[2] = 0) \/ (probeOut[3] = 0)

\* The number a sequence of decimal digits denotes.
DigitValue(c) == CHOOSE d \in 0..9 : Digit(d) = c
RECURSIVE ParseDecimal(_)
ParseDecimal(ds) ==
    IF ds = <<>> THEN 0
    ELSE 10 * ParseDecimal(SubSeq(ds, 1, Len(ds) - 1)) + DigitValue(ds[Len(ds)])

\* UTF-16 code units a sequence of decoded characters stands for.
RECURSIVE Utf16Len(_)
Utf16Len(cs) ==
    IF cs = <<>> THEN 0
    ELSE (IF cs[1] = "c_supp" THEN 2 ELSE 1) + Utf16Len(Tail(cs))

\* ------------------------------------------------------------------ claims

\* C1: every descriptor the OS allocated for a try_from call is released by
\* LocalFree exactly once: never twice, and once nothing owns it any more it
\* has been released (never zero times), also when try_from returned an error
\* after the OS call.
C1_ReleasedExactlyOnce ==
    \A d \in allocated :
        /\ freeCount[d] <= 1
        /\ (info.security_descriptor # d) => (freeCount[d] = 1)

\* C2: whenever the probe reported a name count or a domain count of zero,
\* the resolution returned NotFound and no fill call was issued.
C2_ZeroCountIsNotFound ==
    (ProbeDone /\ ProbeZero) =>
        /\ IsError(lookupResult) /\ lookupResult.kind = "NotFound"
        /\ fillCalls = 0

\* C2, amended: whenever the probe returned a not-ok status and reported a
\* zero count, the resolution returned NotFound; and whatever the status, a
\* zero count ends the resolution with an error and without a fill call.
C2_ZeroCountFailedProbeIsNotFound ==
    (ProbeDone /\ ProbeZero) =>
        /\ IsError(lookupResult)
        /\ fillCalls = 0
        /\ (probeOut[1] = FALSE) => (lookupResult.kind = "NotFound")
        /\ (probeOut[1] = TRUE) => (lookupResult.kind = "InvalidInput")

C2_Witness ==
    /\ pc = "paint" /\ ProbeDone /\ probeOut[1] = FALSE /\ probeOut[2] > 0
    /\ probeOut[3] = 0 /\ lookupResult.kind = "NotFound"

\* C3: whenever the probe returned a success status, the resolution returned
\* InvalidInput and no fill call was issued, whatever the counts, zero
\* included.
C3_ProbeSuccessIsInvalidInput ==
    (ProbeDone /\ probeOut[1] = TRUE) =>
        /\ IsError(lookupResult) /\ lookupResult.kind = "InvalidInput"
        /\ lookupResult.msg = MsgProbeSucceeded
        /\ fillCalls = 0

C3_Witness ==
    /\ pc = "paint" /\ ProbeDone /\ probeOut[1] = TRUE /\ probeOut[2] = 0
    /\ lookupResult.kind = "InvalidInput"

\* C4: whenever a render call, of User or of Group, has ended on a resolution
\* that is an error, it has returned a cell (nothing was raised), the cell is
\* the text ERROR in the bold-red style, and one error was logged; and a
\* render call holding an erroneous resolution can always return.
C4_ErrorRendersPlaceholder ==
    /\ (outcome # "none" /\ IsError(lookupResult)) =>
            /\ outcome = "cell"
            /\ cell = [text |-> ErrorText, style |-> "red_bold"]
            /\ logCount = 1
    /\ (pc = "paint" /\ IsError(lookupResult)) =>
            ENABLED (User_render_return \/ Group_render_return)

C4_Witness ==
    /\ outcome = "cell" /\ kind = "Group" /\ FillDone /\ fillOut[1] = FALSE
    /\ IsError(lookupResult) /\ cell.text = ErrorText

\* C5: try_from returns Ok only when the owner SID, the group SID and the
\* descriptor are all valid; otherwise NotFound for an invalid owner SID,
\* NotFound for a valid owner and an invalid group SID, PermissionDenied for
\* two valid SIDs and an invalid descriptor.
C5_TryFromErrorKinds ==
    tryResult.set =>
        LET ownerOk == secOut[1]
            groupOk == secOut[2]
            sdOk == secOut[3]
        IN  /\ tryResult.ok <=> (ownerOk /\ groupOk /\ sdOk)
            /\ ~ownerOk => (tryResult.kind = "NotFound")
            /\ (ownerOk /\ ~groupOk) => (tryResult.kind = "NotFound")
            /\ (ownerOk /\ groupOk /\ ~sdOk) => (tryResult.kind = "PermissionDenied")

C5_Witness ==
    /\ tryResult.set /\ secOut = <<FALSE, TRUE, FALSE>> /\ tryResult.kind = "NotFound"

\* C6: whenever the fill call returned a not-ok status, the resolution
\* returned InvalidInput whose message is the decimal text of the last-error
\* code the OS left after that call, with no name and no domain.
C6_FillFailureCarriesLastError ==
    (pc = "paint" /\ FillDone /\ fillOut[1] = FALSE) =>
        /\ IsError(lookupResult) /\ lookupResult.kind = "InvalidInput"
        /\ \A i \in 1..Len(lookupResult.msg) :
                \E d \in 0..9 : lookupResult.msg[i] = Digit(d)
        /\ ParseDecimal(lookupResult.msg) = lastError
        /\ Len(lookupResult.msg) = (IF lastError < 10 THEN 1
                                    ELSE IF lastError < 100 THEN 2
                                    ELSE IF lastError < 1000 THEN 3 ELSE 4)
        /\ lookupResult.name = <<>> /\ lookupResult.domain = <<>>

C6_Witness ==
    /\ pc = "paint" /\ FillDone /\ fillOut[1] = FALSE /\ lastError = 1332
    /\ lookupResult.msg = <<"1", "3", "3", "2">>

\* C7: whenever the fill call reports an insufficient buffer, the resolution
\* runs the protocol again from the probe instead of ending with that failure.
C7_RetryFromProbe ==
    [][(pc = "fill" /\ fillOut'[1] = FALSE /\ InsufficientBuffer(lastError'))
         => (pc' = "probe")]_vars

\* C7, amended: whenever the fill call reports an insufficient buffer, the
\* resolution ends with that failure, InvalidInput carrying the code 122, and
\* the render call issues no further probe or fill call.
C7_InsufficientBufferEnds ==
    (FillDone /\ fillOut[1] = FALSE /\ lookupResult.msg = <<"1", "2", "2">>) =>
        /\ pc \in {"paint", "idle", "held"}
        /\ IsError(lookupResult) /\ lookupResult.kind = "InvalidInput"
        /\ probeCalls = 1 /\ fillCalls = 1

C7_Witness ==
    /\ outcome = "cell" /\ FillDone /\ fillOut[1] = FALSE
    /\ fillOut[2] > probeOut[2] /\ lookupResult.msg = <<"1", "2", "2">>

\* C8: one call of User::render issues at most one probe call and at most
\* one fill call, and a failure of either is reported once: one logged error
\* and one ERROR cell.
C8_NoRetries ==
    (kind = "User") =>
        /\ probeCalls <= 1 /\ fillCalls <= 1
        /\ logCount <= 1
        /\ (outcome = "cell" /\ IsError(lookupResult)) =>
                (logCount = 1 /\ cell.text = ErrorText)
        /\ (outcome = "cell" /\ ~IsError(lookupResult)) => (logCount = 0)

C8_Witness ==
    /\ kind = "User" /\ outcome = "cell" /\ probeCalls = 1 /\ fillCalls = 1
    /\ fillOut[1] = FALSE /\ logCount = 1

\* C9: for a successful resolution yielding name n and domain d, User::render
\* returns d, then "/", then n in the someone_else style and Group::render the
\* same text in the not_yours style, whatever the format argument; the you
\* and yours styles are never applied.
C9_SuccessRendersDomainSlashName ==
    /\ (outcome = "cell" /\ lookupResult.set /\ lookupResult.ok) =>
            /\ cell.text = lookupResult.domain \o <<"/">> \o lookupResult.name
            /\ cell.style = (IF kind = "User" THEN "someone_else" ELSE "not_yours")
            /\ logCount = 0
    /\ cell.style \notin {"you", "yours"}

C9_Witness ==
    /\ outcome = "cell" /\ kind = "User" /\ format = "Name" /\ lookupResult.ok
    /\ lookupResult.name = <<"c_a">> /\ lookupResult.domain = <<"c_fffd", "c_a">>
    /\ cell.text = <<"c_fffd", "c_a", "/", "c_a">>

\* C10: after a successful fill call, the name buffer and the domain buffer
\* have the lengths N and M the probe reported, and the decoded name and
\* domain consume N and M code units.
C10_LengthsAreProbedCounts ==
    (pc = "paint" /\ FillDone /\ fillOut[1] = TRUE) =>
        /\ Len(name_buffer) = probeOut[2]
        /\ Len(domain_name_buffer) = probeOut[3]
        /\ Utf16Len(lookupResult.name) = probeOut[2]
        /\ Utf16Len(lookupResult.domain) = probeOut[3]

\* C10, amended: after a successful fill call, the name buffer and the domain
\* buffer have the lengths the fill call left in its two counts (which need
\* not be the probed N and M), the decoded name and domain consume exactly
\* those many code units, and decoding does not fail.
C10_LengthsAreFilledCounts ==
    (pc = "paint" /\ FillDone /\ fillOut[1] = TRUE) =>
        /\ lookupResult.set /\ lookupResult.ok
        /\ Len(name_buffer) = fillOut[2]
        /\ Len(domain_name_buffer) = fillOut[3]
        /\ Utf16Len(lookupResult.name) = fillOut[2]
        /\ Utf16Len(lookupResult.domain) = fillOut[3]

C10_Witness ==
    /\ pc = "paint" /\ FillDone /\ fillOut[1] = TRUE
    /\ probeOut[2] = 2 /\ fillOut[2] = 1 /\ fillOut[3] = 2
    /\ name_buffer = <<"u_lo">> /\ lookupResult.name = <<"c_fffd">>
    /\ domain_name_buffer = <<"u_hi", "u_lo">> /\ lookupResult.domain = <<"c_supp">>

\* C15: each SID of a descriptor is resolved by its own lookup: the probe and
\* fill calls of a Group render are issued with the group SID, those of a
\* User render with the owner SID.
C15_LookupUsesOwnSid ==
    (ProbeDone /\ pc \in {"fill", "paint"}) =>
        /\ (kind = "User") => (lastCall.sid = info.owner /\ lastCall.sid.role = "owner")
        /\ (kind = "Group") => (lastCall.sid = info.group /\ lastCall.sid.role = "group")

\* C16: every probe or fill call is issued with an owner or group SID of a
\* descriptor that had been acquired and not yet released when the call was
\* made, and while a render call is running its descriptor is unreleased.
C16_NoLookupAfterRelease ==
    /\ (lastCall.phase # "none") =>
            /\ lastCall.sid.role \in {"owner", "group"}
            /\ lastCall.sid.desc \in allocated
            /\ lastCall.live
    /\ (pc \in {"probe", "fill", "paint"}) =>
            /\ info # NoInfo
            /\ info.security_descriptor \in allocated
            /\ freeCount[info.security_descriptor] = 0

C16_Witness ==
    /\ acquired = 2 /\ freeCount[1] = 1 /\ pc = "paint"
    /\ lastCall.phase = "fill" /\ lastCall.sid.desc = 2 /\ lastCall.live

\* C17: once User::render has returned, on any of its exit paths, the
\* descriptor of the value it took has been released, once, and no live
\* value holds it; and a render call about to paint can always return.
C17_RenderReleasesDescriptor ==
    /\ (kind = "User" /\ outcome = "cell") =>
            /\ lastCall.sid.desc \in allocated
            /\ freeCount[lastCall.sid.desc] = 1
            /\ info.security_descriptor # lastCall.sid.desc
    /\ (kind = "User" /\ pc = "paint") => ENABLED User_render_return

C17_Witness ==
    /\ kind = "User" /\ outcome = "cell" /\ pc = "idle" /\ fillCalls = 0
    /\ IsError(lookupResult) /\ freeCount[lastCall.sid.desc] = 1 /\ info = NoInfo

\* C18: the name and domain buffers are allocated with capacities equal to
\* the probed counts, and after a successful fill call the lengths set on
\* them do not exceed those capacities.
C18_LengthsWithinCapacity ==
    (pc = "paint" /\ FillDone) =>
        /\ nameCap = probeOut[2] /\ domCap = probeOut[3]
        /\ (fillOut[1] = TRUE) =>
                /\ Len(name_buffer) <= nameCap
                /\ Len(domain_name_buffer) <= domCap

C18_Witness ==
    /\ pc = "paint" /\ FillDone /\ fillOut[1] = TRUE
    /\ nameCap = 2 /\ Len(name_buffer) = 2 /\ domCap = 1 /\ Len(domain_name_buffer) = 0

\* --------------------------------------------------- claims, field model
\* The variants of Type in the order the enum lists them.
DeclarationOrder == <<"Directory", "File", "Link", "Pipe", "Socket", "CharDevice",
                      "BlockDevice", "Special">>
DeclIndex(t) == CHOOSE i \in 1..Len(DeclarationOrder) : DeclarationOrder[i] = t
Leq(a, b) == cmp(a, b) \in {"Less", "Equal"}
Occurrences(s, t) == Cardinality({i \in 1..Len(s) : s[i] = t})

C12_IsRegularFileIffFile ==
    /\ Cardinality(Type) = 8
    /\ regular.set => (regular.value <=> (file_type = "File"))
    /\ \A t \in Type : is_regular_file(t) <=> (t = DeclarationOrder[2])

C12_Witness ==
    regular.set /\ file_type = "Directory" /\ regular.value = FALSE

\* The comparison on Type is reflexive, antisymmetric, transitive and total,
\* and agrees with the declaration order.
TypeOrderLaws ==
    /\ \A a \in Type : Leq(a, a)
    /\ \A a \in Type, b \in Type : (Leq(a, b) /\ Leq(b, a)) => (a = b)
    /\ \A a \in Type, b \in Type, c \in Type : (Leq(a, b) /\ Leq(b, c)) => Leq(a, c)
    /\ \A a \in Type, b \in Type : Leq(a, b) \/ Leq(b, a)
    /\ \A a \in Type, b \in Type : (cmp(a, b) = "Less") <=> (DeclIndex(a) < DeclIndex(b))

\* C13: the comparison on Type is a total order (reflexive, antisymmetric,
\* transitive, any two variants comparable) that agrees with the declaration
\* order, and a sorted collection of Type values is a rearrangement of the
\* collection that is in declaration order.
C13_TypeTotalOrder ==
    /\ TypeOrderLaws
    /\ sorted.set =>
            /\ Len(sorted.value) = Len(types)
            /\ \A t \in Type : Occurrences(sorted.value, t) = Occurrences(types, t)
            /\ \A i \in 1..Len(sorted.value), j \in 1..Len(sorted.value) :
                    (i < j) => (DeclIndex(sorted.value[i]) <= DeclIndex(sorted.value[j]))

C13_Witness ==
    sorted.set /\ types = <<"BlockDevice", "File">> /\ sorted.value = <<"File", "BlockDevice">>

\* C14: Git::default() yields a value whose staged status and unstaged status
\* are both NotModified.
C14_GitDefault ==
    (git # NoGit) => (git.staged = "NotModified" /\ git.unstaged = "NotModified")

C14_Witness ==
    git # NoGit /\ git.staged \in GitStatus /\ git.unstaged \in GitStatus
====
